---- MODULE Spec2Model ----
(***************************************************************************)
(* Model of src/src/main.rs (ecs-gui-test): the ElementCreator facade      *)
(* (identity counter, specs World with the Identity/Pos/Selected           *)
(* components, MousePosition and Vec<DrawCommand> resources, the scene     *)
(* graph `ui`), the selection system SysA and the frame loop of main.      *)
(*                                                                         *)
(* Vec indices are 0-based in the source and sequences are 1-based here:   *)
(* the element at Vec index i is ui[i + 1].                                *)
(***************************************************************************)
EXTENDS Integers, Sequences, FiniteSets, TLC

VARIABLES
    pc,              \* position in main: build, poll, dispatch, clone,
                     \* draw_begin, draw, clear, done, panicked
    overflow_checks, \* build profile: TRUE = arithmetic overflow panics
    panic_at,        \* "none", or the place that panicked
    latest_id,       \* ElementCreator.latest_id
    last_identity,   \* the Identity given to the entity by the latest
                     \* bootstrap_new_entity call, -1 before the first call
    ui,              \* ElementCreator.ui : Vec<UiElement>
    ents,            \* World entities in creation order, with their
                     \* Identity, Pos and Selected components
    mouse,           \* resource MousePosition
    draw_commands,   \* resource Vec<DrawCommand> (Select(id) is written id)
    dc,              \* main's local clone of the draw commands
    element_stack,   \* draw_to_canvas: the work stack
    visited,         \* draw_to_canvas: elements worked on, in order
    canvas,          \* draw_to_canvas: the draw_rect calls of this render
    calls,           \* completed add_square calls: arguments and result
    frames,          \* number of dispatches so far
    events           \* events polled so far in the current poll batch

vars == <<pc, overflow_checks, panic_at, latest_id, last_identity, ui, ents, mouse,
          draw_commands, dc, element_stack, visited, canvas, calls,
          frames, events>>

(***************************************************************************)
(* Bounds of the model and the input sets                                  *)
(***************************************************************************)
MaxAdds == 3
MaxFrames == 2
MaxEvents == 1

\* the corner pairs (p1, p2) handed to add_square: two boxes at different
\* places and one whose second corner is smaller than its first
Boxes == {<< <<0, 0>>, <<4, 6>> >>,
          << <<4, 6>>, <<9, 11>> >>,
          << <<4, 6>>, <<0, 0>> >>}
\* pointer positions delivered by MouseMotion events
MousePts == {<<0, 0>>, <<4, 7>>, <<9, 11>>}

(***************************************************************************)
(* Program constants                                                       *)
(***************************************************************************)
Margin == 5
RootMax == 400
U16Max == 65535

(***************************************************************************)
(* Vec helpers                                                             *)
(***************************************************************************)
SeqToSet(s) == {s[k] : k \in 1..Len(s)}

Count(s, x) == Cardinality({k \in 1..Len(s) : s[k] = x})

NoDup(s) == \A j, k \in 1..Len(s) : s[j] = s[k] => j = k

\* a mutant of VecInsert: the element goes to the front of the Vec
VecInsert_front(s, index, e) == <<e>> \o s

\* a mutant of VecInsert: the element is pushed at the end of the Vec
VecInsert_push(s, index, e) == Append(s, e)

\* Vec::insert(index, e) with 0-based index <= len
VecInsert(s, index, e) ==
    SubSeq(s, 1, index) \o <<e>> \o SubSeq(s, index + 1, Len(s))

(***************************************************************************)
(* UiElement                                                               *)
(***************************************************************************)
Square(p1, p2, children) ==
    [kind |-> "Square", p1 |-> p1, p2 |-> p2, children |-> children]

add_child(el, child_index) ==
    IF el.kind = "Text"
    THEN el
    ELSE [el EXCEPT !.children = Append(@, child_index)]

(***************************************************************************)
(* SysA::run                                                               *)
(***************************************************************************)
\* a mutant of Hit: the lower edge of the box is not tested
Hit_no_y_max(m, pos) ==
    m[1] >= pos[1] /\ m[2] >= pos[2] /\ m[1] <= pos[3]

Hit(m, pos) ==
    m[1] >= pos[1] /\ m[2] >= pos[2] /\ m[1] <= pos[3] /\ m[2] <= pos[4]

\* a mutant of Grow: the box expands outward on its four edges
Grow_outward(pos) ==
    <<pos[1] - Margin, pos[2] - Margin, pos[3] + Margin, pos[4] + Margin>>

\* a mutant of Grow: only the far corner is moved
Grow_max_only(pos) ==
    <<pos[1], pos[2], pos[3] + Margin, pos[4] + Margin>>

\* a mutant of Grow: only the x coordinates are moved
Grow_x_only(pos) ==
    <<pos[1] + Margin, pos[2], pos[3] + Margin, pos[4]>>

Grow(pos) ==
    <<pos[1] + Margin, pos[2] + Margin, pos[3] + Margin, pos[4] + Margin>>

\* a mutant of RunEntity: the box is moved whether or not the entity is hit
RunEntity_always_moves(e, m) ==
    [id |-> e.id, pos |-> Grow(e.pos), selected |-> Hit(m, e.pos)]

\* one iteration of the join loop on entity e
RunEntity(e, m) ==
    LET sel == Hit(m, e.pos)
    IN  [id |-> e.id,
         pos |-> IF sel THEN Grow(e.pos) ELSE e.pos,
         selected |-> sel]

RECURSIVE PushSelected_all(_, _, _)
\* a mutant of PushSelected: a command is pushed for every entity
PushSelected_all(es, k, q) ==
    IF k > Len(es)
    THEN q
    ELSE PushSelected_all(es, k + 1, Append(q, es[k].id))

RECURSIVE PushSelected(_, _, _)
\* the draw commands pushed by the join loop from entity k on, appended to q
PushSelected(es, k, q) ==
    IF k > Len(es)
    THEN q
    ELSE PushSelected(es, k + 1,
                      IF es[k].selected THEN Append(q, es[k].id) ELSE q)

\* a mutant of JoinStep: an entity is selected only while no command is queued
JoinStep_exclusive(acc, i, m) ==
    LET sel == Hit(m, acc.es[i].pos) /\ acc.q = <<>>
        e == [id |-> acc.es[i].id,
              pos |-> IF sel THEN Grow(acc.es[i].pos) ELSE acc.es[i].pos,
              selected |-> sel]
    IN  [es |-> [acc.es EXCEPT ![i] = e],
         q |-> IF sel THEN Append(acc.q, e.id) ELSE acc.q]

\* the body of the join loop on the i-th entity: components es and queue q
JoinStep(acc, i, m) ==
    LET e == RunEntity(acc.es[i], m)
    IN  [es |-> [acc.es EXCEPT ![i] = e],
         q |-> IF e.selected THEN Append(acc.q, e.id) ELSE acc.q]

RECURSIVE RunJoin(_, _, _, _)
\* the join loop iterating the entities in the order order[k], order[k+1], ..
RunJoin(acc, order, k, m) ==
    IF k > Len(order)
    THEN acc
    ELSE RunJoin(JoinStep(acc, order[k], m), order, k + 1, m)

SysARunEnts(es, m) == [k \in 1..Len(es) |-> RunEntity(es[k], m)]

SysARunQueue(es, m, q) == PushSelected(SysARunEnts(es, m), 1, q)

(***************************************************************************)
(* ElementCreator::new                                                     *)
(***************************************************************************)
Init ==
    /\ pc = "build"
    /\ overflow_checks \in BOOLEAN
    /\ panic_at = "none"
    /\ latest_id = 0
    /\ last_identity = -1
    /\ ui = <<Square(<<0, 0>>, <<RootMax, RootMax>>, <<>>)>>
    /\ ents = <<>>
    /\ mouse = <<0, 0>>
    /\ draw_commands = <<>>
    /\ dc = <<>>
    /\ element_stack = <<>>
    /\ visited = <<>>
    /\ canvas = <<>>
    /\ calls = <<>>
    /\ frames = 0
    /\ events = 0

(***************************************************************************)
(* ElementCreator::add_square (with bootstrap_new_entity)                  *)
(***************************************************************************)
NewEntity(id, p1, p2) ==
    [id |-> id, pos |-> <<p1[1], p1[2], p2[1], p2[2]>>, selected |-> FALSE]

\* latest_id += 1 on a u16
NextId(id) == (id + 1) % (U16Max + 1)

\* Identity(self.latest_id - 1), on the incremented u16
IssuedId(incremented) == (incremented - 1) % (U16Max + 1)

\* a call of bootstrap_new_entity whose builder gets no Pos and no Selected:
\* its entity carries only an Identity and is in no join
BootstrapNewEntity ==
    /\ pc = "build"
    /\ IF latest_id = U16Max /\ overflow_checks
       THEN \* latest_id += 1 overflows
            /\ pc' = "panicked"
            /\ panic_at' = "bootstrap_new_entity"
            /\ UNCHANGED <<latest_id, last_identity>>
       ELSE /\ latest_id' = NextId(latest_id)
            /\ last_identity' = IssuedId(latest_id')
            /\ UNCHANGED <<pc, panic_at>>
    /\ UNCHANGED <<overflow_checks, ui, ents, mouse, draw_commands, dc,
                   element_stack, visited, canvas, calls, frames, events>>

\* the scene graph after add_child on the parent and the insert of the element
UiAfterAdd(u, id, p1, p2, child_of) ==
    VecInsert([u EXCEPT ![child_of + 1] = add_child(@, id)],
              id, Square(p1, p2, <<>>))

AddSquare(p1, p2, child_of) ==
    /\ pc = "build"
    /\ Len(calls) < MaxAdds
    /\ LET id == latest_id IN
       IF latest_id = U16Max /\ overflow_checks
       THEN \* latest_id += 1 overflows
            /\ pc' = "panicked"
            /\ panic_at' = "bootstrap_new_entity"
            /\ UNCHANGED <<latest_id, last_identity, ents, ui, calls>>
       ELSE /\ latest_id' = NextId(latest_id)
            /\ last_identity' = IssuedId(latest_id')
            /\ ents' = Append(ents, NewEntity(last_identity', p1, p2))
            /\ IF child_of >= Len(ui)
               THEN \* self.ui[child_of] is out of bounds
                    /\ pc' = "panicked"
                    /\ panic_at' = "add_square"
                    /\ UNCHANGED <<ui, calls>>
               ELSE IF id > Len(ui)
               THEN \* Vec::insert past the end, after add_child
                    /\ pc' = "panicked"
                    /\ panic_at' = "add_square"
                    /\ ui' = [ui EXCEPT ![child_of + 1] = add_child(@, id)]
                    /\ UNCHANGED calls
               ELSE /\ ui' = UiAfterAdd(ui, id, p1, p2, child_of)
                    /\ calls' = Append(calls, [id |-> id, child_of |-> child_of,
                                               p1 |-> p1, p2 |-> p2])
                    /\ UNCHANGED <<pc, panic_at>>
    /\ UNCHANGED <<overflow_checks, mouse, draw_commands, dc, element_stack,
                   visited, canvas, frames, events>>

\* main enters 'mainloop
StartLoop ==
    /\ pc = "build"
    /\ pc' = "poll"
    /\ UNCHANGED <<overflow_checks, panic_at, latest_id, last_identity, ui, ents, mouse,
                   draw_commands, dc, element_stack, visited, canvas, calls,
                   frames, events>>

(***************************************************************************)
(* main: the event loop of one frame                                       *)
(***************************************************************************)
update_position(x, y) == <<x, y>>

PollMouseMotion(x, y) ==
    /\ pc = "poll"
    /\ events < MaxEvents
    /\ mouse' = update_position(x, y)
    /\ events' = events + 1
    /\ UNCHANGED <<pc, overflow_checks, panic_at, latest_id, last_identity, ui, ents,
                   draw_commands, dc, element_stack, visited, canvas, calls,
                   frames>>

\* any event other than Quit, Escape and MouseMotion
PollOther ==
    /\ pc = "poll"
    /\ events < MaxEvents
    /\ events' = events + 1
    /\ UNCHANGED <<pc, overflow_checks, panic_at, latest_id, last_identity, ui, ents, mouse,
                   draw_commands, dc, element_stack, visited, canvas, calls,
                   frames>>

\* a mutant of PollCancel: the break leaves the event loop only
PollCancel_inner_break ==
    /\ pc = "poll"
    /\ pc' = "dispatch"
    /\ events' = 0
    /\ UNCHANGED <<overflow_checks, panic_at, latest_id, last_identity, ui,
                   ents, mouse, draw_commands, dc, element_stack, visited,
                   canvas, calls, frames>>

\* Quit or KeyDown Escape: break 'mainloop
PollCancel ==
    /\ pc = "poll"
    /\ pc' = "done"
    /\ UNCHANGED <<overflow_checks, panic_at, latest_id, last_identity, ui, ents, mouse,
                   draw_commands, dc, element_stack, visited, canvas, calls,
                   frames, events>>

\* poll_iter is exhausted
PollEnd ==
    /\ pc = "poll"
    /\ frames < MaxFrames
    /\ pc' = "dispatch"
    /\ events' = 0
    /\ UNCHANGED <<overflow_checks, panic_at, latest_id, last_identity, ui, ents, mouse,
                   draw_commands, dc, element_stack, visited, canvas, calls,
                   frames>>

(***************************************************************************)
(* ElementCreator::dispatch: one run of SysA                               *)
(***************************************************************************)
\* a mutant of Dispatch: the copy of the commands is taken before the run
Dispatch_late ==
    /\ pc = "dispatch"
    /\ dc' = draw_commands
    /\ ents' = SysARunEnts(ents, mouse)
    /\ draw_commands' = SysARunQueue(ents, mouse, draw_commands)
    /\ frames' = frames + 1
    /\ pc' = "draw_begin"
    /\ UNCHANGED <<overflow_checks, panic_at, latest_id, last_identity, ui,
                   mouse, element_stack, visited, canvas, calls, events>>

\* a mutant of Dispatch: the moved boxes are written back to the scene graph
Dispatch_sync_ui ==
    /\ pc = "dispatch"
    /\ ents' = SysARunEnts(ents, mouse)
    /\ draw_commands' = SysARunQueue(ents, mouse, draw_commands)
    /\ frames' = frames + 1
    /\ pc' = "clone"
    /\ ui' = [i \in 1..Len(ui) |->
                 IF i <= Len(ents)
                 THEN [ui[i] EXCEPT !.p1 = <<ents'[i].pos[1], ents'[i].pos[2]>>,
                                    !.p2 = <<ents'[i].pos[3], ents'[i].pos[4]>>]
                 ELSE ui[i]]
    /\ UNCHANGED <<overflow_checks, panic_at, latest_id, last_identity, mouse,
                   dc, element_stack, visited, canvas, calls, events>>

Dispatch ==
    /\ pc = "dispatch"
    /\ ents' = SysARunEnts(ents, mouse)
    /\ draw_commands' = SysARunQueue(ents, mouse, draw_commands)
    /\ frames' = frames + 1
    /\ pc' = "clone"
    /\ UNCHANGED <<overflow_checks, panic_at, latest_id, last_identity, ui, mouse, dc,
                   element_stack, visited, canvas, calls, events>>

\* let mut dc = ...read_resource::<Vec<DrawCommand>>().clone()
CloneCommands ==
    /\ pc = "clone"
    /\ dc' = draw_commands
    /\ pc' = "draw_begin"
    /\ UNCHANGED <<overflow_checks, panic_at, latest_id, last_identity, ui, ents, mouse,
                   draw_commands, element_stack, visited, canvas, calls,
                   frames, events>>

(***************************************************************************)
(* ElementCreator::draw_to_canvas                                          *)
(***************************************************************************)
\* canvas.clear(); let mut element_stack = vec![0]
DrawBegin ==
    /\ pc = "draw_begin"
    /\ canvas' = <<>>
    /\ visited' = <<>>
    /\ element_stack' = <<0>>
    /\ pc' = "draw"
    /\ UNCHANGED <<overflow_checks, panic_at, latest_id, last_identity, ui, ents, mouse,
                   draw_commands, dc, calls, frames, events>>

\* the stroke colour chosen by the loop over the draw commands
StrokeColor(cmds, current_element) ==
    IF \E k \in 1..Len(cmds) : cmds[k] = current_element
    THEN "blue"
    ELSE "red"

\* p2.0 - p1.0 or p2.1 - p1.1 underflows the u32
RectUnderflow(el) == el.p2[1] < el.p1[1] \/ el.p2[2] < el.p1[2]

\* one iteration of the while loop
DrawIter ==
    /\ pc = "draw"
    /\ element_stack # <<>>
    /\ LET current_element == element_stack[Len(element_stack)]
           popped == SubSeq(element_stack, 1, Len(element_stack) - 1)
       IN  IF current_element >= Len(ui)
           THEN \* self.ui[current_element] is out of bounds
                /\ element_stack' = popped
                /\ pc' = "panicked"
                /\ panic_at' = "draw_to_canvas"
                /\ UNCHANGED <<visited, canvas>>
           ELSE LET ui_element == ui[current_element + 1] IN
                /\ visited' = Append(visited, current_element)
                /\ IF ui_element.kind = "Square"
                   THEN /\ element_stack' = popped \o ui_element.children
                        /\ IF RectUnderflow(ui_element) /\ overflow_checks
                           THEN /\ pc' = "panicked"
                                /\ panic_at' = "draw_to_canvas"
                                /\ UNCHANGED canvas
                           ELSE /\ canvas' = Append(canvas,
                                       [elem |-> current_element,
                                        color |-> StrokeColor(dc, current_element),
                                        p1 |-> ui_element.p1,
                                        p2 |-> ui_element.p2])
                                /\ UNCHANGED <<pc, panic_at>>
                   ELSE /\ element_stack' = popped
                        /\ UNCHANGED <<canvas, pc, panic_at>>
    /\ UNCHANGED <<overflow_checks, latest_id, last_identity, ui, ents, mouse,
                   draw_commands,
                   dc, calls, frames, events>>

\* the stack is empty: canvas.present() and return
DrawEnd ==
    /\ pc = "draw"
    /\ element_stack = <<>>
    /\ pc' = "clear"
    /\ UNCHANGED <<overflow_checks, panic_at, latest_id, last_identity, ui, ents, mouse,
                   draw_commands, dc, element_stack, visited, canvas, calls,
                   frames, events>>

\* a mutant of Cleared: the queue is left as it is
Cleared_keep(q) == q

\* write_resource::<Vec<DrawCommand>>().clear()
Cleared(q) == <<>>

ClearCommands ==
    /\ pc = "clear"
    /\ draw_commands' = Cleared(draw_commands)
    /\ pc' = "poll"
    /\ UNCHANGED <<overflow_checks, panic_at, latest_id, last_identity, ui, ents, mouse, dc,
                   element_stack, visited, canvas, calls, frames, events>>

(***************************************************************************)
(* Specification                                                           *)
(***************************************************************************)
Next ==
    \/ \E b \in Boxes, child_of \in 0..(MaxAdds + 1) :
           AddSquare(b[1], b[2], child_of)
    \/ StartLoop
    \/ \E m \in MousePts : PollMouseMotion(m[1], m[2])
    \/ PollOther
    \/ PollCancel
    \/ PollEnd
    \/ Dispatch
    \/ CloneCommands
    \/ DrawBegin
    \/ DrawIter
    \/ DrawEnd
    \/ ClearCommands

Spec == Init /\ [][Next]_vars

\* the identity allocation alone: calls of bootstrap_new_entity from the
\* state ElementCreator::new leaves, up to and past the end of the u16 range
IdNext == BootstrapNewEntity

IdSpec == Init /\ [][IdNext]_vars

TypeOK ==
    /\ pc \in {"build", "poll", "dispatch", "clone", "draw_begin", "draw",
               "clear", "done", "panicked"}
    /\ latest_id \in 0..U16Max
    /\ Len(ui) >= 1

(***************************************************************************)
(* Vocabulary of the properties                                            *)
(***************************************************************************)
\* the point m lies in the closed rectangle [x_min,x_max] x [y_min,y_max]
InBox(m, box) ==
    /\ box[1] <= m[1] /\ m[1] <= box[3]
    /\ box[2] <= m[2] /\ m[2] <= box[4]

Indices == 0..(Len(ui) - 1)

\* the child identities of every element, as sets; an identity that is no
\* index has no children
ChildSets == [i \in Indices |-> SeqToSet(ui[i + 1].children)]

RECURSIVE Closure(_, _, _)
\* S and everything reachable from S through at most n links of ch
Closure(ch, S, n) ==
    LET T == S \cup UNION {ch[i] : i \in S \cap DOMAIN ch}
    IN  IF n = 0 \/ T = S THEN S ELSE Closure(ch, T, n - 1)

Reach(i) == Closure(ChildSets, {i}, Len(ui))

RECURSIVE ChildSlots(_)
\* the child lists of the elements 0 .. n-1, one after the other
ChildSlots(n) ==
    IF n = 0 THEN <<>> ELSE ChildSlots(n - 1) \o ui[n].children

\* the index at which the seeded root container sits
RootIdx == CHOOSE r \in Indices : ui[r + 1].p2 = <<RootMax, RootMax>>

SelectedIds == {ents[k].id : k \in {j \in 1..Len(ents) : ents[j].selected}}

BlueElems == {canvas[k].elem : k \in {j \in 1..Len(canvas) : canvas[j].color = "blue"}}

Rendering == pc \in {"clone", "draw_begin", "draw", "clear"}

(***************************************************************************)
(* C1: after a run of SysA the Selected flag of every entity is true       *)
(* exactly when the pointer lies in the closed rectangle of the box the    *)
(* entity had before that run.                                             *)
(***************************************************************************)
C1_SelectedIffInPreFrameBox ==
    [][pc = "dispatch" =>
          /\ Len(ents') = Len(ents)
          /\ \A k \in 1..Len(ents) :
                 ents'[k].selected <=> InBox(mouse, ents[k].pos)]_vars

\* after a run: an entity selected through its pre-frame box although the
\* pointer is outside the box the run left it with, next to an unselected one
C1_Witness ==
    /\ pc = "clone"
    /\ \E k \in 1..Len(ents) : ents[k].selected /\ ~InBox(mouse, ents[k].pos)
    /\ \E k \in 1..Len(ents) : ~ents[k].selected

C3_ReturnedIdInParentChildList ==
    (pc = "build" /\ calls # <<>>) =>
        LET c == calls[Len(calls)] IN
        /\ c.id \in Indices
        /\ c.child_of \in Indices
        /\ Count(ui[c.child_of + 1].children, c.id) = 1

(***************************************************************************)
(* C4 as stated: the element at index 0 is always the seeded root          *)
(* container (0,0)-(400,400) and no add_square call returns identity 0.    *)
(***************************************************************************)
C4_RootStaysAtIndexZero ==
    /\ ui[1].p1 = <<0, 0>>
    /\ ui[1].p2 = <<RootMax, RootMax>>
    /\ \A k \in 1..Len(calls) : calls[k].id # 0

(***************************************************************************)
(* C5: after the run of the selection system and until the queue is        *)
(* cleared, the DrawCommand queue holds exactly one Select(id) for each    *)
(* entity whose flag the run set, and nothing for any other entity.        *)
(***************************************************************************)
C5_OneCommandPerSelected ==
    Rendering =>
        /\ \A k \in 1..Len(ents) :
               Count(draw_commands, ents[k].id) = IF ents[k].selected THEN 1 ELSE 0
        /\ SeqToSet(draw_commands) = SelectedIds
        /\ Len(draw_commands) = Cardinality(SelectedIds)

\* a second frame with a selected and an unselected entity
C5_Witness ==
    /\ pc = "clone"
    /\ frames = 2
    /\ \E k \in 1..Len(ents) : ents[k].selected
    /\ \E k \in 1..Len(ents) : ~ents[k].selected

(***************************************************************************)
(* C6: at the start of every frame, while events are pumped and until the  *)
(* selection system runs, the DrawCommand queue of the World is empty.     *)
(***************************************************************************)
C6_QueueEmptyAtFrameStart ==
    pc \in {"build", "poll", "dispatch", "done"} => draw_commands = <<>>

\* the start of a frame that follows a frame in which commands were pushed
C6_Witness ==
    /\ pc = "poll"
    /\ events = 0
    /\ frames >= 1
    /\ dc # <<>>

(***************************************************************************)
(* C7 as stated: when draw_to_canvas has returned, the elements it drew    *)
(* with the blue stroke are exactly the entities the frame's run selected. *)
(***************************************************************************)
C7_BlueIffSelected ==
    pc = "clear" => BlueElems = SelectedIds

(***************************************************************************)
(* C8 as stated: a call of draw_to_canvas comes to its end, and its        *)
(* traversal visits every element reachable from index 0 exactly once.     *)
(***************************************************************************)
C8_TraversalVisitsReachableOnce ==
    /\ panic_at # "draw_to_canvas"
    /\ pc \in {"draw", "clear"} =>
           /\ NoDup(visited)
           /\ SeqToSet(visited) \subseteq Reach(0)
    /\ pc = "clear" => SeqToSet(visited) = Reach(0)

(***************************************************************************)
(* C9: the child lists form a tree rooted at the seeded root container:    *)
(* no element is its own descendant, every element other than the root     *)
(* occurs exactly once in exactly one child list, the root in none, and    *)
(* every element is reachable from the root.  (The child lists have        *)
(* together as many slots as there are elements other than the root, and   *)
(* hold each of them: so each is held exactly once and the root never.)    *)
(***************************************************************************)
C9_SceneGraphIsTree ==
    LET ch == ChildSets
        root == RootIdx
        slots == ChildSlots(Len(ui))
    IN  /\ \A i \in Indices : i \notin Closure(ch, ch[i], Len(ui))
        /\ Len(slots) = Len(ui) - 1
        /\ SeqToSet(slots) = Indices \ {root}
        /\ Closure(ch, {root}, Len(ui)) = Indices

\* three added elements, a tree of depth greater than 1 below the root, which
\* sits at the last index
C9_Witness ==
    /\ Len(calls) >= 3
    /\ RootIdx = Len(ui) - 1
    /\ \E i \in Indices \ {RootIdx} :
           \E j \in ChildSets[i] : j \in Indices /\ ChildSets[j] # {}

(***************************************************************************)
(* C10: every issued Identity and every Identity in a child list is a      *)
(* valid index into ui, and the element at the index of an issued Identity *)
(* is the one its call created: it has the corners of the call, and the    *)
(* entity created by the call carries that Identity.                       *)
(***************************************************************************)
C10_IdentityIsIndex ==
    /\ \A k \in 1..Len(calls) :
           /\ calls[k].id \in Indices
           /\ ui[calls[k].id + 1].p1 = calls[k].p1
           /\ ui[calls[k].id + 1].p2 = calls[k].p2
           /\ ents[k].id = calls[k].id
    /\ \A i \in Indices : ChildSets[i] \subseteq Indices

\* three elements with different corners, after a frame that moved a box
C10_Witness ==
    /\ Len(calls) >= 3
    /\ calls[1].p2 # calls[2].p2
    /\ calls[2].p1 # calls[3].p1
    /\ frames >= 1
    /\ \E k \in 1..Len(calls) : ents[k].pos[1] # calls[k].p1[1]

(***************************************************************************)
(* C11 as stated: every bootstrap_new_entity call issues an Identity       *)
(* strictly greater than the one issued before it (and so than every       *)
(* earlier one), also when the 16-bit counter reaches its maximum.         *)
(***************************************************************************)
C11_IdentitiesStrictlyIncrease ==
    [][latest_id' # latest_id => last_identity' > last_identity]_vars

(***************************************************************************)
(* C12 as stated: an add_square call whose parent Identity does not        *)
(* resolve to a container ends in an error and adds nothing: no entity,    *)
(* no consumed identity, no change of the scene graph.                     *)
(***************************************************************************)
C12_InvalidParentAddsNothing ==
    [][(pc = "build" /\ panic_at' = "add_square") =>
          /\ latest_id' = latest_id
          /\ ents' = ents
          /\ ui' = ui]_vars

(***************************************************************************)
(* C13: in a frame in which an entity is computed as not selected, the run *)
(* leaves its box as it was and pushes no command for it; and the box of   *)
(* an entity changes in no step other than a run that selects it.          *)
(***************************************************************************)
C13_UnselectedIsFrozen ==
    [][\A k \in 1..Len(ents) :
           /\ (pc = "dispatch" /\ ~ents'[k].selected) =>
                  /\ ents'[k].pos = ents[k].pos
                  /\ \A j \in 1..Len(draw_commands') :
                         draw_commands'[j] # ents[k].id
           /\ ents'[k].pos # ents[k].pos =>
                  pc = "dispatch" /\ ents'[k].selected]_vars

\* after a run: an entity left unselected, still with the corners it was
\* created with, next to one that the run selected
C13_Witness ==
    /\ pc = "clone"
    /\ \E k \in 1..Len(calls) :
           /\ ~ents[k].selected
           /\ ents[k].pos = <<calls[k].p1[1], calls[k].p1[2],
                              calls[k].p2[1], calls[k].p2[2]>>
           /\ ents[k].pos[1] <= ents[k].pos[3]
    /\ \E k \in 1..Len(ents) : ents[k].selected

(***************************************************************************)
(* C14 as stated: for the scene of main (A under Identity(0), B under the  *)
(* Identity returned for A, C under Identity(0)) one draw_to_canvas call   *)
(* visits the root, then C, then A, then B.                                *)
(***************************************************************************)
C14_MainSceneOrder ==
    (/\ pc = "clear"
     /\ Len(calls) = 3
     /\ calls[1].child_of = 0
     /\ calls[2].child_of = calls[1].id
     /\ calls[3].child_of = 0) =>
        visited = <<RootIdx, calls[3].id, calls[1].id, calls[2].id>>

(***************************************************************************)
(* C15: within a frame the steps come in one order: the pointer updates,   *)
(* then one run of the selection system, then the copy of the commands     *)
(* and the render that uses it, then the clear of the World's queue; the   *)
(* system does not run between a render and the clear, and the queue is    *)
(* what the render's copy was taken from until it is cleared.  (A render   *)
(* that panics ends the process; it is followed by no step.)               *)
(***************************************************************************)
FrameSuccessors(p) ==
    CASE p = "poll" -> {"poll", "dispatch", "done"}
      [] p = "dispatch" -> {"clone"}
      [] p = "clone" -> {"draw_begin"}
      [] p = "draw_begin" -> {"draw"}
      [] p = "draw" -> {"draw", "clear", "panicked"}
      [] p = "clear" -> {"poll"}
      [] OTHER -> {"build", "poll", "panicked"}

C15_FrameStepOrder ==
    /\ [](pc \in {"draw_begin", "draw", "clear"} => dc = draw_commands)
    /\ [][/\ pc' \in FrameSuccessors(pc)
          /\ mouse' # mouse => pc = "poll" /\ pc' = "poll"
          /\ frames' # frames =>
                 pc = "dispatch" /\ pc' = "clone" /\ frames' = frames + 1
          /\ (pc # "build" /\ ents' # ents) => pc = "dispatch"
          /\ draw_commands' # draw_commands => pc \in {"dispatch", "clear"}
          /\ dc' # dc => pc = "clone"
          /\ (visited' # visited \/ canvas' # canvas) =>
                 pc \in {"draw_begin", "draw"}]_vars

\* the end of the render of a second frame that has commands to use
C15_Witness ==
    /\ pc = "clear"
    /\ frames = 2
    /\ dc # <<>>
    /\ canvas # <<>>

(***************************************************************************)
(* C16: in a scene whose squares have their second corner not below the    *)
(* first (as in main), the frame loop is left only by the step that polls  *)
(* a cancel event; that step goes straight to the end of main and changes  *)
(* nothing else (no run, no render, no clear, no further event applied);   *)
(* nothing happens after it; and in every other position of the loop the   *)
(* next step of the frame can be taken, so the loop does not end by itself *)
(* (up to the frame bound of the model).                                   *)
(***************************************************************************)
LoopPcs == {"poll", "dispatch", "clone", "draw_begin", "draw", "clear"}

OrderedCorners == \A i \in 1..Len(ui) : ~RectUnderflow(ui[i])

FrameStep ==
    \/ PollEnd
    \/ Dispatch
    \/ CloneCommands
    \/ DrawBegin
    \/ DrawIter
    \/ DrawEnd
    \/ ClearCommands

C16_ExitOnlyOnCancel ==
    /\ []((pc \in LoopPcs /\ frames < MaxFrames) => ENABLED FrameStep)
    /\ [][/\ (pc \in LoopPcs /\ pc' \notin LoopPcs /\ OrderedCorners) =>
                 pc = "poll" /\ pc' = "done"
          /\ PollCancel =>
                 /\ pc' = "done"
                 /\ UNCHANGED <<latest_id, last_identity, ui, ents, mouse,
                                draw_commands, dc, element_stack, visited,
                                canvas, calls, frames, events, panic_at>>
          /\ pc # "done"]_vars

\* a cancel polled in the second frame's batch, after another event of it
C16_Witness ==
    /\ pc = "done"
    /\ frames = 1
    /\ events = 1
    /\ ents # <<>>
    /\ OrderedCorners

(***************************************************************************)
(* C17: from one pointer position and one component state, the runs of    *)
(* the selection system over all iteration orders of the entities give the *)
(* same Selected flag and box for every entity and the same commands up to *)
(* their order; a command is queued only for an entity whose flag the run  *)
(* has set; and the run of the dispatcher is the one in creation order.    *)
(***************************************************************************)
Orders(n) == {f \in [1..n -> 1..n] : \A j, k \in 1..n : f[j] = f[k] => j = k}

C17_JoinOrderIndependent ==
    pc = "dispatch" =>
        LET n == Len(ents)
            start == [es |-> ents, q |-> draw_commands]
            base == RunJoin(start, [k \in 1..n |-> k], 1, mouse)
        IN  /\ base.es = SysARunEnts(ents, mouse)
            /\ base.q = SysARunQueue(ents, mouse, draw_commands)
            /\ \A order \in Orders(n) :
                   LET r == RunJoin(start, order, 1, mouse)
                   IN  /\ r.es = base.es
                       /\ Len(r.q) = Len(base.q)
                       /\ \A k \in 1..n :
                              /\ Count(r.q, ents[k].id) = Count(base.q, ents[k].id)
                              /\ Count(r.q, ents[k].id) > 0 => r.es[k].selected

\* before a run that selects two entities: the reverse order queues their
\* commands the other way round
C17_Witness ==
    /\ pc = "dispatch"
    /\ Len(ents) >= 2
    /\ LET n == Len(ents)
           start == [es |-> ents, q |-> draw_commands]
       IN  RunJoin(start, [k \in 1..n |-> n + 1 - k], 1, mouse).q
               # RunJoin(start, [k \in 1..n |-> k], 1, mouse).q

(***************************************************************************)
(* C18: with the pointer at (px,py), an entity whose box holds the pointer *)
(* has floor(min(px - x_min, py - y_min) / 5) + 1 selected frames left, and *)
(* one whose box does not hold it has none: a run selects exactly the      *)
(* entities with frames left and takes one of them away; an entity with    *)
(* none left is not selected, keeps its box and gets no command; and       *)
(* between runs the count changes only if the pointer moves.  So with a    *)
(* pointer that stays, every entity is selected in at most that many       *)
(* consecutive further frames and in none after them.                      *)
(***************************************************************************)
Min(a, b) == IF a <= b THEN a ELSE b

FramesLeft(m, box) ==
    IF InBox(m, box)
    THEN (Min(m[1] - box[1], m[2] - box[2]) \div Margin) + 1
    ELSE 0

C18_SelectedFinitelyOften ==
    [][\A k \in 1..Len(ents) :
           /\ pc = "dispatch" =>
                  /\ mouse' = mouse
                  /\ FramesLeft(mouse, ents[k].pos) > 0 =>
                         /\ ents'[k].selected
                         /\ FramesLeft(mouse, ents'[k].pos)
                                = FramesLeft(mouse, ents[k].pos) - 1
                  /\ FramesLeft(mouse, ents[k].pos) = 0 =>
                         /\ ~ents'[k].selected
                         /\ ents'[k].pos = ents[k].pos
                         /\ Count(draw_commands', ents[k].id) = 0
           /\ (pc # "dispatch" /\ mouse' = mouse) =>
                  FramesLeft(mouse', ents'[k].pos) = FramesLeft(mouse, ents[k].pos)]_vars

\* a box created as (4,6)-(9,11) under the pointer (9,11): selected in two
\* frames, the number the bound gives, and with no frame left
C18_Witness ==
    /\ pc = "clone"
    /\ frames = 2
    /\ mouse = <<9, 11>>
    /\ \E k \in 1..Len(ents) :
           /\ ents[k].selected
           /\ ents[k].pos = <<4 + 2 * Margin, 6 + 2 * Margin,
                              9 + 2 * Margin, 11 + 2 * Margin>>
           /\ FramesLeft(mouse, ents[k].pos) = 0

CreationBox(k) ==
    <<calls[k].p1[1], calls[k].p1[2], calls[k].p2[1], calls[k].p2[2]>>

C20_SceneGraphUntouched ==
    /\ [](\A k \in 1..Len(calls) :
              /\ ui[calls[k].id + 1].p1 = calls[k].p1
              /\ ui[calls[k].id + 1].p2 = calls[k].p2)
    /\ [](ui[RootIdx + 1].p1 = <<0, 0>> /\ ui[RootIdx + 1].p2 = <<RootMax, RootMax>>)
    /\ [](\A j \in 1..Len(canvas) :
              /\ canvas[j].p1 = ui[canvas[j].elem + 1].p1
              /\ canvas[j].p2 = ui[canvas[j].elem + 1].p2)
    /\ [](\A k \in 1..Len(calls) :
              (frames > 0 /\ ents[k].selected) => ents[k].pos # CreationBox(k))
    /\ [][/\ pc \in {"dispatch", "clone", "draw_begin", "draw"} => ui' = ui
          /\ pc \in {"clone", "draw_begin", "draw"} =>
                 /\ ents' = ents
                 /\ mouse' = mouse
                 /\ draw_commands' = draw_commands
                 /\ latest_id' = latest_id
          /\ pc \in {"draw_begin", "draw"} => dc' = dc]_vars

\* a finished render that drew a selected element in blue with its creation
\* corners while the box of its entity is elsewhere
C20_Witness ==
    /\ pc = "clear"
    /\ \E j \in 1..Len(canvas) : \E k \in 1..Len(calls) :
           /\ canvas[j].color = "blue"
           /\ calls[k].id = canvas[j].elem
           /\ ents[k].selected
           /\ ents[k].pos # <<canvas[j].p1[1], canvas[j].p1[2],
                              canvas[j].p2[1], canvas[j].p2[2]>>

====
